---- MODULE Spec2Model ----
(***************************************************************************)
(* Expression-tree calculator (expr.py): integer constants, binary and     *)
(* unary operators, variables and assignment over one global environment   *)
(* ENV.  Nodes are records tagged by their class; eval is the recursive    *)
(* evaluator, returning the environment it leaves behind, the exception it *)
(* raised ("none" when it returned) and the value of the IntConst it       *)
(* returned.                                                               *)
(***************************************************************************)
EXTENDS Integers, FiniteSets, Sequences, TLC

\* ENV     the global dict of bindings, name -> value of the bound IntConst
\* node    the node the caller built last and holds
\* op      the last call: a class name (its constructor), "eval", "__eq__",
\*         "env_clear"
\* args    the operands of the last __eq__
\* raised  the exception the last call raised, "none" when it returned
\* ret     what the last call returned
\* cleared history: the names env_clear unbound that were not assigned since
VARIABLES ENV, node, op, args, raised, ret, cleared

vars == <<ENV, node, op, args, raised, ret, cleared>>

\* ---------------------------------------------------------------- bounds
\* Integer literals the caller writes in a session are 0..MaxConst.
MaxConst == 1
\* A session is followed while every bound value stays in -MaxVal..MaxVal.
MaxVal == 2
\* Operands of the arithmetic specification are -MaxInt..MaxInt.
MaxInt == 4

Names == {"x", "y"}
Consts == 0..MaxConst
Values == (0 - MaxVal)..MaxVal
Ints == (0 - MaxInt)..MaxInt

BinClasses == {"Plus", "Minus", "Times", "Div"}
UnClasses == {"Neg", "Abs"}

\* ----------------------------------------------------------------- nodes
\* No node / no return value (Python's None).
NoNode == [cls |-> "None"]

\* IntConst.__init__
IntConst(value) == [cls |-> "IntConst", value |-> value]

\* Var.__init__
Var(name) == [cls |-> "Var", name |-> name]

\* BinOp._binop_init, reached from Plus/Minus/Times/Div.__init__
binop_init(cls, exp1, exp2) == [cls |-> cls, exp1 |-> exp1, exp2 |-> exp2]

\* UnOp._unop_init, reached from Neg/Abs.__init__
unop_init(cls, exp) == [cls |-> cls, exp |-> exp]

\* The fields Assign.__init__ sets once its assertion has passed.
AssignNode(left, right) == [cls |-> "Assign", left |-> left, right |-> right]

\* A bool returned by __eq__.
Bool(b) == [cls |-> "bool", b |-> b]

\* The outcome of a constructor call: the exception raised and the node made.
Made(n) == [exc |-> "none", node |-> n]
Failed(exc) == [exc |-> exc, node |-> NoNode]

\* BinOp.__init__: the abstract class refuses to be instantiated.
BinOp_init_Accepts(exp1, exp2) == Made(binop_init("BinOp", exp1, exp2))
BinOp_init(exp1, exp2) == Failed("NotImplementedError")

\* UnOp.__init__: the abstract class refuses to be instantiated.
UnOp_init(exp) == Failed("NotImplementedError")

\* Plus/Minus/Times/Div.__init__
Concrete_init(cls, exp1, exp2) == Made(binop_init(cls, exp1, exp2))

\* Neg/Abs.__init__
ConcreteUn_init(cls, exp) == Made(unop_init(cls, exp))

\* Assign.__init__: assert isinstance(left, Var)
Assign_init_Unchecked(left, right) == Made(AssignNode(left, right))
Assign_init(left, right) ==
  IF left.cls = "Var" THEN Made(AssignNode(left, right))
  ELSE Failed("AssertionError")

\* ------------------------------------------------------------ evaluation
\* What an eval call leaves: the environment, the exception, the value.
Returned(env, val) == [env |-> env, exc |-> "none", val |-> val]
Raised(env, exc) == [env |-> env, exc |-> exc, val |-> 0]

\* Python's abs
abs(v) == IF v < 0 THEN 0 - v ELSE v

\* Python's int // int for a non-zero divisor: the floor of the quotient.
FloorDiv_Truncating(val1, val2) ==
  IF (val1 < 0) = (val2 < 0) THEN abs(val1) \div abs(val2)
  ELSE 0 - (abs(val1) \div abs(val2))
FloorDiv(val1, val2) == val1 \div val2

\* Div._apply: val1 // val2, ZeroDivisionError when val2 is 0.
Div_apply_ZeroIsZero(env, val1, val2) ==
  IF val2 = 0 THEN Returned(env, 0) ELSE Returned(env, FloorDiv(val1, val2))
Div_apply(env, val1, val2) ==
  IF val2 = 0 THEN Raised(env, "ZeroDivisionError")
  ELSE Returned(env, FloorDiv(val1, val2))

\* Plus._apply, Minus._apply, Times._apply, Div._apply
BinOp_apply(cls, env, val1, val2) ==
  CASE cls = "Plus" -> Returned(env, val1 + val2)
    [] cls = "Minus" -> Returned(env, val1 - val2)
    [] cls = "Times" -> Returned(env, val1 * val2)
    [] cls = "Div" -> Div_apply(env, val1, val2)

\* Neg._apply, Abs._apply
UnOp_apply(cls, val) == IF cls = "Neg" THEN 0 - val ELSE abs(val)

\* Var.eval: the bound value; in the else branch the message's f-string reads
\* self.Name, an attribute no Var has, so AttributeError leaves the method
\* before UndefinedVariable is constructed.
Var_eval_Binding(e, env) ==
  IF e.name \in DOMAIN env THEN Returned(env, env[e.name])
  ELSE Returned([n \in DOMAIN env \cup {e.name} |-> IF n = e.name THEN 0 ELSE env[n]], 0)
Var_eval(e, env) ==
  IF e.name \in DOMAIN env THEN Returned(env, env[e.name])
  ELSE Raised(env, "AttributeError")

\* Var.assign: ENV[self.name] = val
Var_assign_InsertOnly(name, env, val) ==
  IF name \in DOMAIN env THEN env
  ELSE [n \in DOMAIN env \cup {name} |-> IF n = name THEN val ELSE env[n]]
Var_assign(name, env, val) ==
  [n \in DOMAIN env \cup {name} |-> IF n = name THEN val ELSE env[n]]

\* env_clear: ENV = dict()
EmptyEnv(env) == [n \in {} |-> 0]

RECURSIVE eval(_, _)

\* BinOp.eval: exp1.eval(), then exp2.eval(), then _apply; an exception
\* raised by either operand leaves eval at once.
BinOp_eval_RightFirst(e, env) ==
  LET r2 == eval(e.exp2, env) IN
    IF r2.exc # "none" THEN r2
    ELSE LET r1 == eval(e.exp1, r2.env) IN
      IF r1.exc # "none" THEN r1
      ELSE BinOp_apply(e.cls, r1.env, r1.val, r2.val)
BinOp_eval(e, env) ==
  LET r1 == eval(e.exp1, env) IN
    IF r1.exc # "none" THEN r1
    ELSE LET r2 == eval(e.exp2, r1.env) IN
      IF r2.exc # "none" THEN r2
      ELSE BinOp_apply(e.cls, r2.env, r1.val, r2.val)

\* UnOp.eval
UnOp_eval(e, env) ==
  LET r == eval(e.exp, env) IN
    IF r.exc # "none" THEN r
    ELSE Returned(r.env, UnOp_apply(e.cls, r.val))

\* Assign.eval: right.eval(), left.assign(r_val), return r_val
Assign_eval(e, env) ==
  LET r == eval(e.right, env) IN
    IF r.exc # "none" THEN r
    ELSE Returned(Var_assign(e.left.name, r.env, r.val), r.val)

\* Expr.eval, dispatched on the node's class.
eval(e, env) ==
  CASE e.cls = "IntConst" -> Returned(env, e.value)
    [] e.cls = "Var" -> Var_eval(e, env)
    [] e.cls = "Assign" -> Assign_eval(e, env)
    [] e.cls \in BinClasses -> BinOp_eval(e, env)
    [] e.cls \in UnClasses -> UnOp_eval(e, env)

\* IntConst.__eq__: self.value == other.value; only an IntConst has .value.
IntConst_eq(self, o, env) ==
  IF o.cls = "IntConst" THEN [env |-> env, exc |-> "none", b |-> self.value = o.value]
  ELSE [env |-> env, exc |-> "AttributeError", b |-> FALSE]

\* Expr.__eq__: self.eval() == other.eval(), both results IntConst.
Expr_eq(self, o, env) ==
  LET r1 == eval(self, env) IN
    IF r1.exc # "none" THEN [env |-> r1.env, exc |-> r1.exc, b |-> FALSE]
    ELSE LET r2 == eval(o, r1.env) IN
      IF r2.exc # "none" THEN [env |-> r2.env, exc |-> r2.exc, b |-> FALSE]
      ELSE IntConst_eq(IntConst(r1.val), IntConst(r2.val), r2.env)

\* self == other: the __eq__ of self's class.
eq(self, o, env) ==
  IF self.cls = "IntConst" THEN IntConst_eq(self, o, env) ELSE Expr_eq(self, o, env)

\* ------------------------------------------------------------ the caller
\* The caller (a parser or a test) builds nodes bottom-up and holds the node
\* it built last: the operands it hands to a constructor are literals,
\* variables or the held node.
IsAtom(n) == n.cls \in {"IntConst", "Var"}

Children(n) ==
  CASE n.cls \in BinClasses -> {n.exp1, n.exp2}
    [] n.cls \in UnClasses -> {n.exp}
    [] n.cls = "Assign" -> {n.left, n.right}
    [] OTHER -> {}

Atoms == {IntConst(c) : c \in Consts} \cup {Var(n) : n \in Names}

\* The held node is handed on as an operand while its own operands are atoms.
Operands == Atoms \cup (IF \A c \in Children(node) : IsAtom(c) THEN {node} \ {NoNode} ELSE {})

\* The operators the nested sessions build.
NestClasses == {"Plus", "Div"}

InRange(env) == \A n \in DOMAIN env : env[n] \in Values

\* A constructor call: the node is held when the constructor returns.
Construct(cls, made) ==
  /\ op' = cls
  /\ args' = <<>>
  /\ raised' = made.exc
  /\ node' = IF made.exc = "none" THEN made.node ELSE node
  /\ ret' = NoNode
  /\ UNCHANGED <<ENV, cleared>>

NewIntConst == \E c \in Consts : Construct("IntConst", Made(IntConst(c)))

NewVar == \E n \in Names : Construct("Var", Made(Var(n)))

\* Plus(l, r), Minus(l, r), Times(l, r), Div(l, r)
NewConcreteBinOp ==
  \E cls \in BinClasses, l \in Operands, r \in Operands :
    Construct(cls, Concrete_init(cls, l, r))

\* BinOp(l, r)
NewBinOp == \E l \in Operands, r \in Operands : Construct("BinOp", BinOp_init(l, r))

\* Neg(e), Abs(e)
NewConcreteUnOp ==
  \E cls \in UnClasses, e \in Operands : Construct(cls, ConcreteUn_init(cls, e))

\* UnOp(e)
NewUnOp == \E e \in Operands : Construct("UnOp", UnOp_init(e))

\* Assign(l, r)
NewAssign == \E l \in Operands, r \in Operands : Construct("Assign", Assign_init(l, r))

\* The same constructors over the operand sets of the other specifications.
FlatBinOp ==
  \E cls \in BinClasses, l \in Atoms, r \in Atoms : Construct(cls, Concrete_init(cls, l, r))

FlatUnOp == \E cls \in UnClasses, e \in Atoms : Construct(cls, ConcreteUn_init(cls, e))

VarAssign == \E n \in Names, r \in Operands : Construct("Assign", Assign_init(Var(n), r))

NestBinOp ==
  \E cls \in NestClasses, l \in Operands, r \in Operands :
    Construct(cls, Concrete_init(cls, l, r))

NestUnOp == \E e \in Operands : Construct("Neg", ConcreteUn_init("Neg", e))

ArithBinOp ==
  \E cls \in BinClasses, a \in Ints, b \in Ints :
    Construct(cls, Concrete_init(cls, IntConst(a), IntConst(b)))

ArithUnOp == \E cls \in UnClasses, a \in Ints : Construct(cls, ConcreteUn_init(cls, IntConst(a)))

\* node.eval() on the held node.
Evaluate ==
  /\ node # NoNode
  /\ LET r == eval(node, ENV) IN
       /\ InRange(r.env)
       /\ ENV' = r.env
       /\ raised' = r.exc
       /\ ret' = IF r.exc = "none" THEN IntConst(r.val) ELSE NoNode
       /\ cleared' = cleared \ DOMAIN r.env
  /\ op' = "eval"
  /\ args' = <<>>
  /\ UNCHANGED node

\* self == o, for self and o among the held node and the integer literals.
Equals ==
  /\ node # NoNode
  /\ \E self \in {node} \cup {IntConst(c) : c \in Ints},
        o \in {node} \cup {IntConst(c) : c \in Ints} :
       /\ node \in {self, o}
       /\ LET r == eq(self, o, ENV) IN
            /\ ENV' = r.env
            /\ raised' = r.exc
            /\ ret' = IF r.exc = "none" THEN Bool(r.b) ELSE NoNode
            /\ cleared' = cleared \ DOMAIN r.env
       /\ args' = <<self, o>>
  /\ op' = "__eq__"
  /\ UNCHANGED node

\* env_clear()
env_clear ==
  /\ ENV' = EmptyEnv(ENV)
  /\ cleared' = cleared \cup DOMAIN ENV
  /\ op' = "env_clear"
  /\ args' = <<>>
  /\ raised' = "none"
  /\ ret' = NoNode
  /\ UNCHANGED node

\* The module as imported: ENV = dict(), nothing built yet.
Init ==
  /\ ENV = [n \in {} |-> 0]
  /\ node = NoNode
  /\ op = "import"
  /\ args = <<>>
  /\ raised = "none"
  /\ ret = NoNode
  /\ cleared = {}

\* A calculator session: flat expressions, assignments of them, evaluation
\* and env_clear.
Next ==
  \/ NewIntConst
  \/ NewVar
  \/ FlatBinOp
  \/ FlatUnOp
  \/ VarAssign
  \/ Evaluate
  \/ env_clear

Spec == Init /\ [][Next]_vars

\* Construction alone, of every class, over trees of up to three levels.
NextBuild ==
  \/ NewIntConst
  \/ NewVar
  \/ NewConcreteBinOp
  \/ NewBinOp
  \/ NewConcreteUnOp
  \/ NewUnOp
  \/ NewAssign

SpecBuild == Init /\ [][NextBuild]_vars

\* Sessions over nested trees: operators and assignments inside operands.
NextNest ==
  \/ NewIntConst
  \/ NewVar
  \/ NestBinOp
  \/ NestUnOp
  \/ VarAssign
  \/ Evaluate
  \/ env_clear

SpecNest == Init /\ [][NextNest]_vars

\* Arithmetic and comparison over integer literals.
NextArith ==
  \/ ArithBinOp
  \/ ArithUnOp
  \/ Evaluate
  \/ Equals

SpecArith == Init /\ [][NextArith]_vars

\* ---------------------------------------------------------------- claims
EmptyDict == [n \in {} |-> 0]

RECURSIVE HasAssign(_)
\* The tree holds an Assign node.
HasAssign(e) == e.cls = "Assign" \/ \E c \in Children(e) : HasAssign(c)

RECURSIVE AssignTargets(_)
\* The names the Assign nodes of the tree assign to.
AssignTargets(e) ==
  (IF e.cls = "Assign" /\ e.left.cls = "Var" THEN {e.left.name} ELSE {})
    \cup UNION {AssignTargets(c) : c \in Children(e)}

RECURSIVE AllTargetsVar(_)
\* Every Assign node of the tree has a Var as its left side.
AllTargetsVar(e) ==
  /\ e.cls = "Assign" => e.left.cls = "Var"
  /\ \A c \in Children(e) : AllTargetsVar(c)

\* The names whose binding a step adds, removes or changes.
Changed ==
  {n \in DOMAIN ENV \cup DOMAIN ENV' :
     \/ n \notin DOMAIN ENV
     \/ n \notin DOMAIN ENV'
     \/ ENV[n] # ENV'[n]}

\* C1: a successful Assign(Var(n), e).eval() returns the value v of e and
\* leaves n bound to v, whether n was bound before or not; Var(n).eval() on a
\* bound n returns the bound value and changes nothing; and a binding of n
\* changes only in env_clear or in the evaluation of a tree that assigns to n
\* - so a lookup returns the value of the most recent assignment.
AssignThenLookup ==
  [][/\ (op' = "eval" /\ node.cls = "Assign" /\ raised' = "none") =>
          LET v == eval(node.right, ENV).val IN
            /\ ret' = IntConst(v)
            /\ node.left.name \in DOMAIN ENV'
            /\ ENV'[node.left.name] = v
     /\ (op' = "eval" /\ node.cls = "Var" /\ node.name \in DOMAIN ENV) =>
          /\ raised' = "none"
          /\ ret' = IntConst(ENV[node.name])
          /\ ENV' = ENV
     /\ \A n \in Changed :
          \/ op' = "env_clear"
          \/ op' = "eval" /\ n \in AssignTargets(node)]_vars

\* C1 witness: both names are bound, to different values, x to the value of
\* a computed expression, and the lookup of x returns x's.
LookupAfterOverwrite ==
  /\ op = "eval"
  /\ node = Var("x")
  /\ raised = "none"
  /\ DOMAIN ENV = Names
  /\ ENV["x"] # ENV["y"]
  /\ ret = IntConst(ENV["x"])
  /\ ret.value < 0

\* C2: evaluating Var(n) for an unbound n raises UndefinedVariable and leaves
\* the environment as it was.
UnboundRaisesUndefinedVariable ==
  (op = "eval" /\ node.cls = "Var" /\ node.name \notin DOMAIN ENV) =>
     raised = "UndefinedVariable"

\* C3: env_clear leaves the environment empty, and evaluating a variable
\* that was bound before the clear and not assigned since raises
\* UndefinedVariable.
ClearedRaisesUndefinedVariable ==
  /\ op = "env_clear" => ENV = EmptyDict
  /\ (op = "eval" /\ node.cls = "Var" /\ node.name \in cleared) =>
        (node.name \notin DOMAIN ENV /\ raised = "UndefinedVariable")

\* q is the floor of a / b: the integer with q <= a/b < q + 1.
IsFloorQuotient(q, a, b) ==
  IF b > 0 THEN q * b <= a /\ a < (q + 1) * b
  ELSE q * b >= a /\ a > (q + 1) * b

\* C4: Plus, Minus, Times over IntConst(a), IntConst(b) evaluate to an
\* IntConst of a+b, a-b, a*b, and Div, for b # 0, to the floor quotient.
ArithmeticResults ==
  (/\ op = "eval"
   /\ node.cls \in BinClasses
   /\ node.exp1.cls = "IntConst"
   /\ node.exp2.cls = "IntConst") =>
     LET a == node.exp1.value
         b == node.exp2.value
     IN /\ node.cls = "Plus" => (raised = "none" /\ ret = IntConst(a + b))
        /\ node.cls = "Minus" => (raised = "none" /\ ret = IntConst(a - b))
        /\ node.cls = "Times" => (raised = "none" /\ ret = IntConst(a * b))
        /\ (node.cls = "Div" /\ b # 0) =>
              /\ raised = "none"
              /\ ret.cls = "IntConst"
              /\ IsFloorQuotient(ret.value, a, b)

\* C4 witness: a quotient of operands of opposite sign that is not exact.
FloorOfMixedSigns ==
  /\ op = "eval"
  /\ node = binop_init("Div", IntConst(0 - 3), IntConst(2))
  /\ ret = IntConst(0 - 2)

RECURSIVE ReachesZeroDiv(_, _)
\* Evaluating e in env evaluates a Div node whose left operand evaluates to
\* a value and whose right operand evaluates to 0.
ReachesZeroDiv(e, env) ==
  CASE e.cls \in BinClasses ->
         LET r1 == eval(e.exp1, env)
             r2 == eval(e.exp2, r1.env)
         IN \/ ReachesZeroDiv(e.exp1, env)
            \/ r1.exc = "none" /\ ReachesZeroDiv(e.exp2, r1.env)
            \/ e.cls = "Div" /\ r1.exc = "none" /\ r2.exc = "none" /\ r2.val = 0
    [] e.cls \in UnClasses -> ReachesZeroDiv(e.exp, env)
    [] e.cls = "Assign" -> ReachesZeroDiv(e.right, env)
    [] OTHER -> FALSE

\* C5: when an evaluation reaches a Div whose right operand evaluates to 0,
\* the whole evaluation, through every operator and Assign around that Div,
\* raises ZeroDivisionError and returns nothing; an Assign around it, with
\* no Assign inside, binds nothing.
ZeroDivisionPropagates ==
  [][(op' = "eval" /\ ReachesZeroDiv(node, ENV)) =>
        /\ raised' = "ZeroDivisionError"
        /\ ret' = NoNode
        /\ (node.cls = "Assign" /\ ~HasAssign(node.right)) => ENV' = ENV]_vars

\* C5 witness: the division by a variable bound to 0 sits inside an Assign,
\* whose target stays unbound.
ZeroDivisionInsideAssign ==
  /\ op = "eval"
  /\ raised = "ZeroDivisionError"
  /\ node.cls = "Assign"
  /\ node.right.cls = "Div"
  /\ node.right.exp2.cls = "Var"
  /\ node.left.name \notin DOMAIN ENV

\* C6: x == y is True whenever x and y evaluate to the same integer, in
\* both operand orders.
EqualWhenSameValue ==
  (/\ op = "__eq__"
   /\ eval(args[1], ENV).exc = "none"
   /\ eval(args[2], ENV).exc = "none"
   /\ eval(args[1], ENV).val = eval(args[2], ENV).val) =>
     (raised = "none" /\ ret = Bool(TRUE))

\* C7: Assign(l, r) with l not a Var raises AssertionError from the
\* constructor: no node is made, the held node and the environment stay, and
\* no tree ever holds an Assign whose left side is not a Var.
AssignRejectsNonVar ==
  /\ [](AllTargetsVar(node) /\ (raised = "AssertionError" => op = "Assign"))
  /\ [][\A l \in Operands, r \in Operands :
          (l.cls # "Var" /\ Construct("Assign", Assign_init(l, r))) =>
             (raised' = "AssertionError" /\ node' = node /\ ENV' = ENV)]_vars

\* C7 witness: the constructor has refused while an operator node is held.
AssignRefused ==
  /\ op = "Assign"
  /\ raised = "AssertionError"
  /\ node.cls = "Plus"
  /\ ENV = EmptyDict

\* C8: BinOp(...) and UnOp(...) raise NotImplementedError and make no node;
\* Plus, Minus, Times, Div, Neg and Abs return a node of their class.
AbstractRefusedConcreteBuilt ==
  /\ op \in {"BinOp", "UnOp"} => raised = "NotImplementedError"
  /\ node.cls \notin {"BinOp", "UnOp"}
  /\ op \in BinClasses \cup UnClasses => (raised = "none" /\ node.cls = op)

\* C8 witness: BinOp(...) was refused after a Neg over a Div was built.
AbstractRefused ==
  /\ op = "BinOp"
  /\ raised = "NotImplementedError"
  /\ node.cls = "Neg"
  /\ node.exp.cls = "Div"

\* The names an operand writes whenever it is evaluated: it is an Assign of
\* an integer literal.
IsLiteralAssign(e) == e.cls = "Assign" /\ e.right.cls = "IntConst"

\* C9 as stated: after a binary node was evaluated, the write of every
\* operand that assigns has taken effect, also when the evaluation failed.
BothOperandsAlwaysEvaluated ==
  (op = "eval" /\ node.cls \in BinClasses) =>
     \A o \in {node.exp1, node.exp2} :
        IsLiteralAssign(o) => o.left.name \in DOMAIN ENV

\* C9 amended: the left operand is evaluated first; when it raises, eval
\* raises the same and the right operand is not evaluated; otherwise the
\* right operand is evaluated in the environment the left one left, whatever
\* the left value is, and what it writes stays, also when it or the operator
\* raises.
LeftThenRightUnlessLeftRaises ==
  [][(op' = "eval" /\ node.cls \in BinClasses) =>
        LET r1 == eval(node.exp1, ENV)
            r2 == eval(node.exp2, r1.env)
        IN IF r1.exc # "none"
           THEN ENV' = r1.env /\ raised' = r1.exc /\ ret' = NoNode
           ELSE /\ ENV' = r2.env
                /\ r2.exc # "none" => (raised' = r2.exc /\ ret' = NoNode)
                /\ IsLiteralAssign(node.exp1) => node.exp1.left.name \in DOMAIN ENV'
                /\ IsLiteralAssign(node.exp2) => node.exp2.left.name \in DOMAIN ENV'
                /\ (/\ IsLiteralAssign(node.exp1)
                    /\ node.exp2 = Var(node.exp1.left.name)
                    /\ node.cls = "Plus") =>
                      ret' = IntConst(2 * node.exp1.right.value)]_vars

\* C9 witness: the left operand raised and the assignment on the right did
\* not happen.
RightSkippedAfterLeftRaised ==
  /\ op = "eval"
  /\ node.cls = "Plus"
  /\ node.exp1.cls = "Var"
  /\ IsLiteralAssign(node.exp2)
  /\ raised # "none"
  /\ node.exp2.left.name \notin DOMAIN ENV
  /\ node.exp1.name # node.exp2.left.name

\* C10: the environment changes only in env_clear and in the evaluation of a
\* tree that holds an Assign, and there only at the names assigned to; the
\* evaluation of a tree without Assign leaves it as it was, returning or
\* raising.
OnlyAssignAndClearWrite ==
  [][/\ (op' = "eval" /\ ~HasAssign(node)) => ENV' = ENV
     /\ ENV' # ENV =>
          \/ op' = "env_clear"
          \/ op' = "eval" /\ HasAssign(node) /\ Changed \subseteq AssignTargets(node)]_vars

\* C10 witness: a tree without Assign was evaluated and raised, with a
\* binding in place.
PureEvaluationRaised ==
  /\ op = "eval"
  /\ node.cls \in BinClasses
  /\ ~HasAssign(node)
  /\ raised # "none"
  /\ ENV # EmptyDict

====
